---- MODULE Spec2Model ----
(***************************************************************************)
(* The posts REST API of posts/api.py and posts/decorators.py as a state   *)
(* machine: one action per route handler, each applied to one request and  *)
(* producing one response, over the table of persisted posts.              *)
(*                                                                         *)
(* Text values (titles, bodies, query strings) are sequences of one-       *)
(* character strings, so that substring and LIKE matching are computed.    *)
(* Messages of responses are TLA+ strings built as the code formats them.  *)
(***************************************************************************)
EXTENDS Integers, Sequences, FiniteSets, TLC

VARIABLES
    posts,      \* the posts table as the shared session sees it: id -> [title, body]
    last_id,    \* the last id the table's id sequence handed out
    request,    \* the request being answered (NoRequest when none)
    response,   \* the response to it (NoResponse when none)
    ran,        \* the handler body that ran for the request ("none" when a gate answered)
    before,     \* the posts table when the request arrived
    assigned,   \* the ids the creates answered 201 have returned, in order
    pc          \* "idle": waiting for a request; "responded": a response is out

vars == <<posts, last_id, request, response, ran, before, assigned, pc>>

(***************************************************************************)
(* Bounds and input domains                                                *)
(***************************************************************************)

\* How many ids the id sequence hands out in a behaviour.
MaxPosts == 2

\* JSON values a field of a payload can hold.  kind "absent": the key is missing.
Absent == [kind |-> "absent", s |-> <<>>, n |-> 0]
Null == [kind |-> "null", s |-> <<>>, n |-> 0]
Num(n) == [kind |-> "number", s |-> <<>>, n |-> n]
Str(s) == [kind |-> "string", s |-> s, n |-> 0]

\* The texts payloads carry, and the texts the list filters carry.
PayloadTexts == {<<>>, <<"a">>}
LikeTexts == {<<>>, <<"a">>, <<"_">>}

FieldValues == {Absent, Null, Num(32)} \cup {Str(s) : s \in PayloadTexts}

\* A JSON payload: an object with (possibly missing) title and body, or a
\* JSON value that is not an object.
Object(t, b) == [kind |-> "object", title |-> t, body |-> b]
NonObject(k) == [kind |-> k, title |-> Absent, body |-> Absent]
NoPayload == NonObject("none")

Payloads ==
    {Object(t, b) : t \in FieldValues, b \in FieldValues}
        \cup {NonObject("null"), NonObject("array"), NonObject("number")}

\* Payloads sent along with requests that a header gate is going to answer.
GatePayloads == {Object(Str(<<"a">>), Str(<<>>)), NonObject("null")}

\* Accept headers, as the set of media ranges they list ({}: no header sent).
AcceptHeaders == {{}, {"application/json"}, {"application/xml"}, {"text/html", "*/*"}}
ContentTypes == {"application/json", "application/xml"}

Ids == 1 .. (MaxPosts + 1)

Likes == {Absent} \cup {Str(s) : s \in LikeTexts}

NoRequest ==
    [method |-> "none", path |-> "none", accept |-> {}, content_type |-> "",
     id |-> 0, json |-> NoPayload, title_like |-> Absent, body_like |-> Absent]

Req(m, p, a, c, i, j, tl, bl) ==
    [method |-> m, path |-> p, accept |-> a, content_type |-> c,
     id |-> i, json |-> j, title_like |-> tl, body_like |-> bl]

\* The headers every test of the API sends.
StandardHeaders(a, c) == a = {"application/json"} /\ c = "application/json"

(***************************************************************************)
(* Response bodies                                                         *)
(***************************************************************************)

NoPost == [id |-> 0, title |-> Absent, body |-> Absent]

\* A Python value a handler builds, before it is serialised.
Value(k, m, p, l, ks) ==
    [serialized |-> FALSE, kind |-> k, message |-> m, post |-> p, items |-> l, keys |-> ks]

Message(m) == Value("message", m, NoPost, <<>>, <<>>)
PostValue(p) == Value("post", "", p, <<>>, <<>>)
ListValue(l) == Value("list", "", NoPost, l, <<>>)

\* json.dumps: the value as JSON text.
json_dumps(v) == [v EXCEPT !.serialized = TRUE]

\* The body of a response built from a dict that was not serialised: the
\* response iterates the dict, which yields its keys, in the dict's order.
iterated(ks) ==
    [serialized |-> TRUE, kind |-> "keys", message |-> "", post |-> NoPost,
     items |-> <<>>, keys |-> ks]

HtmlError ==
    [serialized |-> TRUE, kind |-> "html", message |-> "", post |-> NoPost,
     items |-> <<>>, keys |-> <<>>]

Response(data, status, mimetype, location) ==
    [data |-> data, status |-> status, mimetype |-> mimetype, location |-> location]

NoResponse == Response(HtmlError, 0, "", "")

\* What a handler leaves behind: its response, the table and the id sequence.
Outcome(resp, db, last, body_ran) ==
    [response |-> resp, posts |-> db, last_id |-> last, ran |-> body_ran]

\* An exception no handler catches: the framework answers 500 with its own page.
Unhandled(db, last, body_ran) ==
    Outcome(Response(HtmlError, 500, "text/html", ""), db, last, body_ran)

(***************************************************************************)
(* The posts table and the Post entity                                     *)
(***************************************************************************)

\* session.query(models.Post).get(id): whether a row with that id exists.
query_get(db, id) == id \in DOMAIN db

\* Post.as_dictionary(): the representation {id, title, body} of a row.
as_dictionary(db, id) == [id |-> id, title |-> db[id].title, body |-> db[id].body]

\* Mutant of next_id: the id after the greatest id in the table, so that the
\* id of a deleted last row is handed out again.
next_id_after_greatest(db, last) ==
    IF DOMAIN db = {} THEN 1
    ELSE (CHOOSE x \in DOMAIN db : \A y \in DOMAIN db : y <= x) + 1

\* The id the table gives a new row: the one after the last it handed out.
next_id(db, last) == last + 1

\* session.add(Post(title, body)); session.commit(): a new row under the next id.
session_add(db, last, title, body) ==
    [i \in DOMAIN db \cup {next_id(db, last)} |->
        IF i = next_id(db, last) THEN [title |-> title, body |-> body] ELSE db[i]]

\* session.delete(post); session.commit().
session_delete(db, id) == [i \in DOMAIN db \ {id} |-> db[i]]

\* The ids of a set of rows in ascending order.
RECURSIVE Ascending(_)
Ascending(S) ==
    IF S = {} THEN <<>>
    ELSE LET m == CHOOSE x \in S : \A y \in S : x <= y
         IN <<m>> \o Ascending(S \ {m})

\* session.query(models.Post): every row, by ascending id.
query(db) == Ascending(DOMAIN db)

\* SQL LIKE: % matches any run of characters, _ any one character.
RECURSIVE like(_, _)
like(s, p) ==
    IF p = <<>> THEN s = <<>>
    ELSE IF Head(p) = "%" THEN like(s, Tail(p)) \/ (s # <<>> /\ like(Tail(s), p))
    ELSE IF s = <<>> THEN FALSE
    ELSE (Head(p) = "_" \/ Head(p) = Head(s)) /\ like(Tail(s), Tail(p))

\* column.contains(other): column LIKE '%' || other || '%'; no match on a
\* column that holds no text.
contains(column, other) ==
    column.kind = "string" /\ like(column.s, <<"%">> \o other.s \o <<"%">>)

(***************************************************************************)
(* decorators.py                                                           *)
(***************************************************************************)

\* mimetype in request.accept_mimetypes: some media range of the Accept
\* header matches the mimetype.
accept_mimetypes_contains(mimetype, header) ==
    \E range \in header :
        \/ range = mimetype
        \/ range = "*/*"
        \/ range = "application/*" /\ mimetype = "application/json"

\* @decorators.accept(mimetype) around a handler whose outcomes are inner.
accept(mimetype, req, db, last, inner) ==
    IF accept_mimetypes_contains(mimetype, req.accept)
    THEN inner
    ELSE {Outcome(Response(json_dumps(Message("Request must accept " \o mimetype \o " data")),
                           406, "application/json", ""),
                  db, last, "none")}

\* @decorators.require(mimetype) around a handler whose outcomes are inner.
require(mimetype, req, db, last, inner) ==
    IF req.content_type = mimetype
    THEN inner
    ELSE {Outcome(Response(json_dumps(Message("Request must contain " \o mimetype \o " data")),
                           415, "application/json", ""),
                  db, last, "none")}

(***************************************************************************)
(* api.py: schema validation                                               *)
(***************************************************************************)

\* Mutant of post_schema: the "required" keyword is left out.
post_schema_no_required ==
    [properties |-> {"title", "body"}, type |-> "string", required |-> <<>>]

post_schema ==
    [properties |-> {"title", "body"}, type |-> "string", required |-> <<"title", "body">>]

Field(instance, name) == IF name = "title" THEN instance.title ELSE instance.body

\* The text the validator prints for a value (Python's repr).
repr(v) == IF v.kind = "null" THEN "None" ELSE ToString(v.n)

\* validate(instance, schema): the messages of the errors it can raise first
\* ({} when the instance is valid).  "properties" and "required" constrain
\* objects only; the schema names no type for the instance itself.
validate(instance, schema) ==
    IF instance.kind # "object" THEN {}
    ELSE LET missing == SelectSeq(schema.required,
                                  LAMBDA k : Field(instance, k).kind = "absent")
             wrong == {k \in schema.properties :
                          Field(instance, k).kind \notin {"absent", schema.type}}
         IN (IF missing = <<>> THEN {}
             ELSE {"'" \o Head(missing) \o "' is a required property"})
            \cup {repr(Field(instance, k)) \o " is not of type '" \o schema.type \o "'" :
                     k \in wrong}

(***************************************************************************)
(* api.py: the five handlers.  Each gives the set of outcomes the request  *)
(* can have on the table db with id sequence at last.                      *)
(***************************************************************************)

Json(data, status) == Response(json_dumps(data), status, "application/json", "")

NotFound(db, last, id, body_ran) ==
    Outcome(Json(Message("Could not find post with id " \o ToString(id)), 404),
            db, last, body_ran)

\* A query-string argument that Python takes as true: given and not empty.
Truthy(arg) == arg.kind = "string" /\ arg.s # <<>>

\* GET /api/posts
posts_get_body(db, last, req) ==
    LET title_like == req.title_like
        body_like == req.body_like
        TitleMatches(i) == contains(db[i].title, title_like)
        BodyMatches(i) == contains(db[i].body, body_like)
        q0 == query(db)
        q1 == IF Truthy(title_like) /\ Truthy(body_like)
              THEN SelectSeq(SelectSeq(q0, TitleMatches), BodyMatches)
              ELSE q0
        q2 == IF Truthy(title_like) THEN SelectSeq(q1, TitleMatches) ELSE q1
        q3 == IF Truthy(body_like) THEN SelectSeq(q2, BodyMatches) ELSE q2
        data == [k \in 1 .. Len(q3) |-> as_dictionary(db, q3[k])]
    IN {Outcome(Json(ListValue(data), 200), db, last, "posts_get")}

posts_get(db, last, req) ==
    accept("application/json", req, db, last, posts_get_body(db, last, req))

\* GET /api/posts/<id>
post_get_body(db, last, req) ==
    IF ~query_get(db, req.id)
    THEN {NotFound(db, last, req.id, "post_get")}
    ELSE {Outcome(Json(PostValue(as_dictionary(db, req.id)), 200), db, last, "post_get")}

post_get(db, last, req) ==
    accept("application/json", req, db, last, post_get_body(db, last, req))

\* Mutant of post_delete_body: the confirmation is sent, the row is not deleted.
post_delete_body_no_delete(db, last, req) ==
    IF ~query_get(db, req.id)
    THEN {NotFound(db, last, req.id, "post_delete")}
    ELSE {Outcome(Json(Message("Deleted post with id " \o ToString(req.id)
                                   \o " from database"), 200),
                  db, last, "post_delete")}

\* DELETE /api/posts/<id>
post_delete_body(db, last, req) ==
    IF ~query_get(db, req.id)
    THEN {NotFound(db, last, req.id, "post_delete")}
    ELSE {Outcome(Json(Message("Deleted post with id " \o ToString(req.id)
                                   \o " from database"), 200),
                  session_delete(db, req.id), last, "post_delete")}

post_delete(db, last, req) ==
    accept("application/json", req, db, last, post_delete_body(db, last, req))

\* Mutant of posts_post_body: the Post is built with title and body swapped.
posts_post_body_swapped(db, last, req) ==
    LET data == req.json
        errors == validate(data, post_schema)
    IN IF errors # {}
       THEN {Outcome(Json(Message(e), 422), db, last, "posts_post") : e \in errors}
       ELSE IF data.kind # "object" \/ data.title.kind = "absent" \/ data.body.kind = "absent"
       THEN {Unhandled(db, last, "posts_post")}
       ELSE LET added == session_add(db, last, data.body, data.title)
                id == next_id(db, last)
            IN {Outcome(Response(json_dumps(PostValue(as_dictionary(added, id))), 201,
                                 "application/json", "/api/posts/" \o ToString(id)),
                        added, id, "posts_post")}

\* POST /api/posts
posts_post_body(db, last, req) ==
    LET data == req.json
        errors == validate(data, post_schema)
    IN IF errors # {}
       THEN {Outcome(Json(Message(e), 422), db, last, "posts_post") : e \in errors}
       ELSE IF data.kind # "object" \/ data.title.kind = "absent" \/ data.body.kind = "absent"
       THEN \* data["title"] on None, a list or a number raises TypeError,
            \* a key that is missing raises KeyError
            {Unhandled(db, last, "posts_post")}
       ELSE LET added == session_add(db, last, data.title, data.body)
                id == next_id(db, last)
            IN {Outcome(Response(json_dumps(PostValue(as_dictionary(added, id))), 201,
                                 "application/json", "/api/posts/" \o ToString(id)),
                        added, id, "posts_post")}

\* Mutant of posts_post: the decorators are applied in the other order.
posts_post_require_first(db, last, req) ==
    require("application/json", req, db, last,
            accept("application/json", req, db, last, posts_post_body(db, last, req)))

posts_post(db, last, req) ==
    accept("application/json", req, db, last,
           require("application/json", req, db, last, posts_post_body(db, last, req)))

\* The orders in which a dict with the keys of data is iterated.
KeyOrders(data) ==
    LET keys == {k \in {"title", "body"} : Field(data, k).kind # "absent"}
    IN {ks \in UNION {[1 .. n -> keys] : n \in 0 .. 2} :
           Len(ks) = Cardinality(keys) /\ {ks[i] : i \in DOMAIN ks} = keys}

\* Mutant of posts_edit_body: the payload is subscripted before the post is
\* looked up.
posts_edit_body_subscript_first(db, last, req) ==
    LET data == req.json
        id == req.id
    IN IF data.kind # "object" \/ data.title.kind = "absent" \/ data.body.kind = "absent"
       THEN {Unhandled(db, last, "posts_edit")}
       ELSE IF ~query_get(db, id)
       THEN {NotFound(db, last, id, "posts_edit")}
       ELSE {Outcome(Response(iterated(ks), 200, "application/json", ""),
                     [db EXCEPT ![id] = [title |-> data.title, body |-> data.body]],
                     last, "posts_edit") : ks \in KeyOrders(data)}

\* PUT /api/posts/<id>
posts_edit_body(db, last, req) ==
    LET data == req.json
        id == req.id
    IN IF ~query_get(db, id)
       THEN {NotFound(db, last, id, "posts_edit")}
       ELSE IF data.kind # "object" \/ data.title.kind = "absent"
       THEN \* data["title"] raises TypeError or KeyError
            {Unhandled(db, last, "posts_edit")}
       ELSE IF data.body.kind = "absent"
       THEN \* post.title is assigned on the session's object, then
            \* data["body"] raises KeyError
            {Unhandled([db EXCEPT ![id].title = data.title], last, "posts_edit")}
       ELSE {Outcome(Response(iterated(ks), 200, "application/json", ""),
                     [db EXCEPT ![id] = [title |-> data.title, body |-> data.body]],
                     last, "posts_edit") : ks \in KeyOrders(data)}

\* Mutant of posts_edit: the Content-Type is not required.
posts_edit_no_require(db, last, req) ==
    accept("application/json", req, db, last, posts_edit_body(db, last, req))

posts_edit(db, last, req) ==
    accept("application/json", req, db, last,
           require("application/json", req, db, last, posts_edit_body(db, last, req)))

(***************************************************************************)
(* The state machine                                                       *)
(***************************************************************************)

Init ==
    /\ posts = <<>>
    /\ last_id = 0
    /\ request = NoRequest
    /\ response = NoResponse
    /\ ran = "none"
    /\ before = <<>>
    /\ assigned = <<>>
    /\ pc = "idle"

\* The server answers req with one of the outcomes of its handler.
Serve(req, outcomes) ==
    /\ pc = "idle"
    /\ \E o \in outcomes :
        /\ o.last_id <= MaxPosts
        /\ posts' = o.posts
        /\ last_id' = o.last_id
        /\ response' = o.response
        /\ ran' = o.ran
        /\ assigned' = IF o.response.status = 201
                       THEN Append(assigned, o.response.data.post.id)
                       ELSE assigned
    /\ request' = req
    /\ before' = posts
    /\ pc' = "responded"

PostsGet ==
    /\ pc = "idle"
    /\ \E a \in AcceptHeaders, c \in ContentTypes, tl \in Likes, bl \in Likes :
        /\ StandardHeaders(a, c) \/ (tl = Absent /\ bl = Absent)
        /\ LET req == Req("GET", "/api/posts", a, c, 0, NoPayload, tl, bl)
           IN Serve(req, posts_get(posts, last_id, req))

PostGet ==
    /\ pc = "idle"
    /\ \E a \in AcceptHeaders, c \in ContentTypes, id \in Ids :
        LET req == Req("GET", "/api/posts/<id>", a, c, id, NoPayload, Absent, Absent)
        IN Serve(req, post_get(posts, last_id, req))

PostDelete ==
    /\ pc = "idle"
    /\ \E a \in AcceptHeaders, c \in ContentTypes, id \in Ids :
        LET req == Req("DELETE", "/api/posts/<id>", a, c, id, NoPayload, Absent, Absent)
        IN Serve(req, post_delete(posts, last_id, req))

PostsPost ==
    /\ pc = "idle"
    /\ \E a \in AcceptHeaders, c \in ContentTypes, j \in Payloads :
        /\ StandardHeaders(a, c) \/ j \in GatePayloads
        /\ LET req == Req("POST", "/api/posts", a, c, 0, j, Absent, Absent)
           IN Serve(req, posts_post(posts, last_id, req))

PostsEdit ==
    /\ pc = "idle"
    /\ \E a \in AcceptHeaders, c \in ContentTypes, id \in Ids, j \in Payloads :
        /\ StandardHeaders(a, c) \/ j \in GatePayloads
        /\ LET req == Req("PUT", "/api/posts/<id>", a, c, id, j, Absent, Absent)
           IN Serve(req, posts_edit(posts, last_id, req))

\* The client has the response; the server waits for the next request.
Deliver ==
    /\ pc = "responded"
    /\ pc' = "idle"
    /\ request' = NoRequest
    /\ response' = NoResponse
    /\ ran' = "none"
    /\ before' = posts
    /\ UNCHANGED <<posts, last_id, assigned>>

Next == PostsGet \/ PostGet \/ PostDelete \/ PostsPost \/ PostsEdit \/ Deliver

Spec == Init /\ [][Next]_vars

(***************************************************************************)
(* Properties                                                              *)
(***************************************************************************)

\* An Accept header includes application/json when one of its media ranges
\* covers it.
IncludesJson(header) ==
    header \cap {"application/json", "application/*", "*/*"} # {}

Answered(method, path) ==
    pc = "responded" /\ request.method = method /\ request.path = path

JsonMessage(m) ==
    [serialized |-> TRUE, kind |-> "message", message |-> m, post |-> NoPost,
     items |-> <<>>, keys |-> <<>>]

\* The response a GET /api/posts/<id> issued now would get.
GetNow(id) ==
    post_get(posts, last_id,
             Req("GET", "/api/posts/<id>", {"application/json"}, "application/json",
                 id, NoPayload, Absent, Absent))

\* Every row but the one under id is as it was when the request arrived.
OthersUnchanged(id) ==
    /\ DOMAIN posts \ {id} = DOMAIN before \ {id}
    /\ \A i \in DOMAIN posts \ {id} : posts[i] = before[i]

\* C1: a POST of an object whose title and body are strings, with Accept and
\* Content-Type application/json, is answered 201 with a post {id, title,
\* body} carrying the posted title and body, and a GET of the returned id
\* issued next is answered 200 with the same id, title and body.
C1_CreateGetRoundTrip ==
    (/\ Answered("POST", "/api/posts")
     /\ request.accept = {"application/json"}
     /\ request.content_type = "application/json"
     /\ request.json.kind = "object"
     /\ request.json.title.kind = "string"
     /\ request.json.body.kind = "string")
    => /\ response.status = 201
       /\ response.data.serialized
       /\ response.data.kind = "post"
       /\ response.data.post.id >= 1
       /\ response.data.post.title = request.json.title
       /\ response.data.post.body = request.json.body
       /\ \A o \in GetNow(response.data.post.id) :
            /\ o.response.status = 200
            /\ o.response.data = response.data

C1_Witness ==
    /\ Answered("POST", "/api/posts")
    /\ response.status = 201
    /\ response.data.post = [id |-> 2, title |-> Str(<<"a">>), body |-> Str(<<>>)]
    /\ 1 \in DOMAIN posts

\* C2: on each of the five routes a request whose Accept header does not
\* include application/json is answered 406 with the message "Request must
\* accept application/json data", no handler body runs and the table is as it
\* was; so too when the Content-Type of a POST or PUT is unsupported.
C2_AcceptGate ==
    (pc = "responded" /\ ~IncludesJson(request.accept))
    => /\ response.status = 406
       /\ response.mimetype = "application/json"
       /\ response.data = JsonMessage("Request must accept application/json data")
       /\ ran = "none"
       /\ posts = before

C2_Witness ==
    /\ Answered("POST", "/api/posts")
    /\ request.accept = {"application/xml"}
    /\ request.content_type = "application/xml"
    /\ request.json.kind = "object"
    /\ response.status = 406
    /\ posts # <<>>

\* C3: a POST or PUT that passes the Accept check and whose Content-Type is
\* not application/json is answered 415 with the message "Request must
\* contain application/json data", its handler body does not run and the
\* table is as it was; a GET or DELETE is never answered 415.
C3_ContentTypeGate ==
    pc = "responded"
    => /\ (/\ request.method \in {"POST", "PUT"}
           /\ IncludesJson(request.accept)
           /\ request.content_type # "application/json")
          => /\ response.status = 415
             /\ response.mimetype = "application/json"
             /\ response.data = JsonMessage("Request must contain application/json data")
             /\ ran = "none"
             /\ posts = before
       /\ request.method \in {"GET", "DELETE"} => response.status # 415

C3_Witness ==
    /\ Answered("PUT", "/api/posts/<id>")
    /\ request.id \in DOMAIN before
    /\ IncludesJson(request.accept)
    /\ request.content_type = "application/xml"
    /\ request.json.kind = "object"
    /\ response.status = 415

\* A payload the post schema rejects: an object whose title or body is
\* missing or is not a string.
ViolatesSchema(j) ==
    /\ j.kind = "object"
    /\ j.title.kind # "string" \/ j.body.kind # "string"

\* C4: a POST whose payload violates the post schema (title or body missing
\* or not a string) is answered 422 with a body {"message": <string>}, and
\* the table is as it was.
C4_CreateValidation ==
    (/\ Answered("POST", "/api/posts")
     /\ IncludesJson(request.accept)
     /\ request.content_type = "application/json"
     /\ ViolatesSchema(request.json))
    => /\ response.status = 422
       /\ response.data.serialized
       /\ response.data.kind = "message"
       /\ response.data.message # ""
       /\ posts = before

C4_Witness ==
    /\ Answered("POST", "/api/posts")
    /\ request.json = Object(Str(<<"a">>), Num(32))
    /\ response.status = 422
    /\ response.data.message = "32 is not of type 'string'"
    /\ posts # <<>>

\* C5: GET, PUT and DELETE of an id that no persisted post has, with
\* acceptable headers and (for PUT) any JSON body at all, are answered 404
\* with the message "Could not find post with id <id>", and the table is as
\* it was.
C5_NotFound ==
    (/\ pc = "responded"
     /\ request.path = "/api/posts/<id>"
     /\ request.id \notin DOMAIN before
     /\ IncludesJson(request.accept)
     /\ request.method = "PUT" => request.content_type = "application/json")
    => /\ response.status = 404
       /\ response.mimetype = "application/json"
       /\ response.data
            = JsonMessage("Could not find post with id " \o ToString(request.id))
       /\ posts = before

C5_Witness ==
    /\ Answered("PUT", "/api/posts/<id>")
    /\ request.json = NonObject("null")
    /\ request.id = 1
    /\ DOMAIN before = {2}
    /\ response.status = 404
    /\ response.data.message = "Could not find post with id 1"

\* C6: a DELETE of the id of a persisted post is answered 200 with the
\* message "Deleted post with id <id> from database", removes that post and
\* no other, and a GET of the same id issued next is answered 404.
C6_Delete ==
    (/\ Answered("DELETE", "/api/posts/<id>")
     /\ IncludesJson(request.accept)
     /\ request.id \in DOMAIN before)
    => /\ response.status = 200
       /\ response.data
            = JsonMessage("Deleted post with id " \o ToString(request.id)
                              \o " from database")
       /\ request.id \notin DOMAIN posts
       /\ OthersUnchanged(request.id)
       /\ \A o \in GetNow(request.id) : o.response.status = 404

C6_Witness ==
    /\ Answered("DELETE", "/api/posts/<id>")
    /\ request.id = 1
    /\ DOMAIN before = {1, 2}
    /\ DOMAIN posts = {2}
    /\ response.data.message = "Deleted post with id 1 from database"

\* text occurs in value as a substring (no character is a wildcard).
Substring(value, text) ==
    /\ value.kind = "string"
    /\ \E k \in 0 .. (Len(value.s) - Len(text.s)) :
          SubSeq(value.s, k + 1, k + Len(text.s)) = text.s

\* The rows of the table that pass the filters given, by ascending id.
Filtered(db, title_like, body_like) ==
    LET Passes(i) ==
            /\ title_like.kind = "absent" \/ Substring(db[i].title, title_like)
            /\ body_like.kind = "absent" \/ Substring(db[i].body, body_like)
        ids == SelectSeq(Ascending(DOMAIN db), Passes)
    IN [k \in 1 .. Len(ids) |-> as_dictionary(db, ids[k])]

Rows(items) == {items[k] : k \in DOMAIN items}

\* C7: GET /api/posts is answered 200 with exactly the posts whose title
\* contains title_like (when given) and whose body contains body_like (when
\* given), by ascending id; with both given that is the intersection of the
\* two single-filter results, with neither given all posts, and [] on an
\* empty table.
C7_ListFiltering ==
    (Answered("GET", "/api/posts") /\ IncludesJson(request.accept))
    => /\ response.status = 200
       /\ response.data.serialized
       /\ response.data.kind = "list"
       /\ response.data.items = Filtered(before, request.title_like, request.body_like)
       /\ Rows(response.data.items)
            = Rows(Filtered(before, request.title_like, Absent))
                \cap Rows(Filtered(before, Absent, request.body_like))
       /\ (request.title_like = Absent /\ request.body_like = Absent)
            => Len(response.data.items) = Cardinality(DOMAIN before)
       /\ before = <<>> => response.data.items = <<>>

\* The raw payload j as a JSON object.
JsonObject(j) ==
    [serialized |-> TRUE, kind |-> "object", message |-> "",
     post |-> [id |-> NoPost.id, title |-> j.title, body |-> j.body],
     items |-> <<>>, keys |-> <<>>]

\* C8: a PUT of the id of a persisted post, with an object payload carrying
\* title and body, sets that post's title and body to the payload's, leaves
\* its id and every other post as they were, and is answered 200 with an
\* application/json body that is the payload echoed back as a JSON object.
C8_Update ==
    (/\ Answered("PUT", "/api/posts/<id>")
     /\ IncludesJson(request.accept)
     /\ request.content_type = "application/json"
     /\ request.id \in DOMAIN before
     /\ request.json.kind = "object"
     /\ request.json.title.kind # "absent"
     /\ request.json.body.kind # "absent")
    => /\ request.id \in DOMAIN posts
       /\ posts[request.id] = [title |-> request.json.title, body |-> request.json.body]
       /\ OthersUnchanged(request.id)
       /\ response.status = 200
       /\ response.mimetype = "application/json"
       /\ response.data = JsonObject(request.json)

\* C9: every request on the five routes, whatever its JSON payload, is
\* answered with one of the statuses 200, 201, 404, 406, 415, 422, and with a
\* body {"message": <string>} when the status is an error; none ends in an
\* exception that the handler does not catch.
C9_NoHandlerCrash ==
    pc = "responded"
    => /\ response.status \in {200, 201, 404, 406, 415, 422}
       /\ response.status \notin {200, 201}
            => /\ response.data.serialized
               /\ response.data.kind = "message"

\* C10: every persisted post has an assigned id and a title and a body that
\* are both non-null strings.
C10_DataInvariant ==
    \A i \in DOMAIN posts :
        /\ i >= 1
        /\ posts[i].title.kind = "string"
        /\ posts[i].body.kind = "string"

\* C11: each create answered 201 returns an id greater than every id an
\* earlier create returned, the ids of posts deleted since included; so the
\* ids returned are all different and every persisted post holds one of them.
C11_IdAssignment ==
    /\ \A j, k \in DOMAIN assigned : j < k => assigned[j] < assigned[k]
    /\ DOMAIN posts \subseteq {assigned[k] : k \in DOMAIN assigned}
    /\ (Answered("POST", "/api/posts") /\ response.status = 201)
        => /\ assigned # <<>>
           /\ response.data.post.id = assigned[Len(assigned)]
           /\ response.data.post.id \notin DOMAIN before
           /\ DOMAIN posts = DOMAIN before \cup {response.data.post.id}

\* The second create, after the first post was deleted.
C11_Witness ==
    /\ Answered("POST", "/api/posts")
    /\ response.status = 201
    /\ assigned = <<1, 2>>
    /\ before = <<>>
    /\ DOMAIN posts = {2}

====
